---- MODULE Spec2Model ----
(***************************************************************************)
(* Number platform of the PoolSync custom integration                      *)
(* (custom_components/poolsync_custom/number.py).                          *)
(*                                                                         *)
(* State: the coordinators' cached state trees and passwords, the          *)
(* module-level data_path lists of NUMBER_DESCRIPTIONS_CHLOR and           *)
(* NUMBER_DESCRIPTIONS_HEATPUMP (shared, mutable), the registered number   *)
(* entities, the write call in flight and the value a read just returned.  *)
(*                                                                         *)
(* Numbers are exact rationals: a tree leaf or a written value is held in  *)
(* tenths (986 is 98.6), a read result as a fraction num/den.              *)
(***************************************************************************)
EXTENDS Integers, Sequences, FiniteSets, TLC

VARIABLES CHLORINATOR_ID, HEATPUMP_ID, data, password, data_path, entities,
          setup_done, call, last_read

vars == <<CHLORINATOR_ID, HEATPUMP_ID, data, password, data_path, entities,
          setup_done, call, last_read>>

(***************************************************************************)
(* CHLORINATOR_ID, HEATPUMP_ID  the constants imported from const.py; they *)
(*              never change, and their values (an id or "-1") are not     *)
(*              fixed by number.py                                         *)
(* data         coordinator.data of each coordinator, as a tree name       *)
(* password     coordinator._password of each coordinator                  *)
(* data_path    the data_path list of each description, by description key *)
(* entities     the entities handed to async_add_entities                  *)
(* setup_done   the coordinators async_setup_entry has run for             *)
(* call         the async_set_native_value call in flight and its history  *)
(* last_read    what native_value returned since the tree and the paths    *)
(*              last changed                                               *)
(***************************************************************************)

(***************************************************************************)
(* The state tree: nodes of a JSON-like value.                             *)
(***************************************************************************)
EmptyMap == [k \in {} |-> 0]

\* a dict; keys is its iteration (insertion) order
MapNode(ks, f) == [kind |-> "map", keys |-> ks, m |-> f, v |-> 0, s |-> ""]

\* a dict given as the sequence of its <<key, value>> items
OMap(items) ==
    MapNode([i \in 1..Len(items) |-> items[i][1]],
            [k \in {items[i][1] : i \in 1..Len(items)} |->
                (CHOOSE x \in {items[i] : i \in 1..Len(items)} : x[1] = k)[2]])

Leaf(kind, v, s) == [kind |-> kind, keys |-> <<>>, m |-> EmptyMap, v |-> v, s |-> s]

Null == Leaf("null", 0, "")
\* an int or float that float() converts, in tenths
Num(v) == Leaf("num", v, "")
\* a string that float() parses, in tenths
NumStr(v) == Leaf("numstr", v, "")
\* any other string
Str(s) == Leaf("str", 0, s)
\* True / False
Bool(v) == Leaf("bool", v, "")
\* a list
List == Leaf("list", 0, "")
\* an int too large for a float (JSON integers are unbounded)
BigInt == Leaf("bigint", 0, "")

IsDict(n) == n.kind = "map"

\* dict.get(key): the value, or None
Get(n, key) == IF key \in DOMAIN n.m THEN n.m[key] ELSE Null

\* `not x` of a coordinator's data: None or an empty dict
Falsy(n) == n.kind = "null" \/ (n.kind = "map" /\ Len(n.keys) = 0)

Absent == Null

\* the path resolver: key by key, Absent when a step is not a mapping, a key
\* is missing, the path is empty or the terminal value is null
RECURSIVE Walk(_, _)
Walk(n, path) ==
    IF path = <<>> THEN n
    ELSE IF ~IsDict(n) \/ Head(path) \notin DOMAIN n.m THEN Absent
    ELSE Walk(n.m[Head(path)], Tail(path))

_get_value_from_path(tree, path) ==
    IF path = <<>> THEN Absent ELSE Walk(tree, path)

(***************************************************************************)
(* Inputs: coordinators, device ids and the state trees a refresh can      *)
(* deliver.                                                                *)
(***************************************************************************)
Coords == {"c1", "c2"}

NotFound == "-1"

Cfg(chlor, setp, mode) ==
    OMap(<< <<"chlorOutput", chlor>>, <<"setpoint", setp>>, <<"mode", mode>> >>)

Dev(cfg) == OMap(<< <<"config", cfg>> >>)

Tree(devices, deviceType) ==
    OMap(<< <<"devices", devices>>, <<"deviceType", deviceType>> >>)

Types(items) == OMap([i \in 1..Len(items) |-> <<items[i][1], Str(items[i][2])>>])

DevA == Dev(Cfg(Num(420), Num(986), Num(10)))
DevB == Dev(Cfg(NumStr(750), Num(680), Null))
DevC == Dev(Cfg(Str("abc"), List, Bool(10)))
DevD == Dev(Cfg(BigInt, BigInt, OMap(<<>>)))
DevE == Dev(Str("n/a"))

AllDevices == OMap(<< <<"0", DevA>>, <<"5", DevB>>, <<"7", DevA>> >>)
OddDevices == OMap(<< <<"0", DevC>>, <<"5", DevD>>, <<"7", DevE>> >>)

\* None, as before the first refresh
NoData == Null
\* {}
EmptyData == OMap(<<>>)
\* no "devices" key
TreeNoDevices == OMap(<< <<"deviceType", Types(<< <<"0", "chlorSync">> >>)>> >>)
\* "devices" is not a dict
TreeDevicesNotDict == Tree(Str("n/a"), Types(<< <<"0", "chlorSync">> >>))
\* "devices" has no "0" entry
TreeNoDeviceZero ==
    Tree(OMap(<< <<"5", DevA>>, <<"7", DevA>> >>),
         Types(<< <<"5", "chlorSync">>, <<"7", "heatPump">> >>))
\* devices["0"] is not a dict
TreeDeviceZeroNotDict ==
    Tree(OMap(<< <<"0", Num(0)>>, <<"5", DevA>>, <<"7", DevA>> >>),
         Types(<< <<"5", "chlorSync">>, <<"7", "heatPump">> >>))
TreeBoth ==
    Tree(AllDevices,
         Types(<< <<"0", "poolSync">>, <<"5", "chlorSync">>, <<"7", "heatPump">> >>))
TreeBothOdd ==
    Tree(OddDevices, Types(<< <<"0", "heatPump">>, <<"5", "chlorSync">> >>))
TreeHeatTie ==
    Tree(AllDevices,
         Types(<< <<"7", "heatPump">>, <<"0", "heatPump">>, <<"5", "chlorSync">> >>))
TreeChlorTie ==
    Tree(OddDevices,
         Types(<< <<"5", "chlorSync">>, <<"7", "chlorSync">>, <<"0", "heatPump">> >>))
TreeNoHeatPump == Tree(AllDevices, Types(<< <<"0", "chlorSync">> >>))
TreeNoChlor == Tree(OddDevices, Types(<< <<"7", "heatPump">> >>))
TreeNoTypes == Tree(AllDevices, Types(<<>>))
\* no "deviceType" key
TreeNoDeviceType == OMap(<< <<"devices", AllDevices>> >>)
\* "deviceType" is not a dict
TreeDeviceTypeNotDict == Tree(OddDevices, Str("n/a"))

\* a coordinator's data is held by name; TreeValue is the tree itself
Trees ==
    {"NoData", "EmptyData", "TreeNoDevices", "TreeDevicesNotDict", "TreeNoDeviceZero",
     "TreeDeviceZeroNotDict", "TreeBoth", "TreeBothOdd", "TreeHeatTie", "TreeChlorTie",
     "TreeNoHeatPump", "TreeNoChlor", "TreeNoTypes", "TreeNoDeviceType",
     "TreeDeviceTypeNotDict"}

TreeValue(name) ==
    CASE name = "NoData" -> NoData
      [] name = "EmptyData" -> EmptyData
      [] name = "TreeNoDevices" -> TreeNoDevices
      [] name = "TreeDevicesNotDict" -> TreeDevicesNotDict
      [] name = "TreeNoDeviceZero" -> TreeNoDeviceZero
      [] name = "TreeDeviceZeroNotDict" -> TreeDeviceZeroNotDict
      [] name = "TreeBoth" -> TreeBoth
      [] name = "TreeBothOdd" -> TreeBothOdd
      [] name = "TreeHeatTie" -> TreeHeatTie
      [] name = "TreeChlorTie" -> TreeChlorTie
      [] name = "TreeNoHeatPump" -> TreeNoHeatPump
      [] name = "TreeNoChlor" -> TreeNoChlor
      [] name = "TreeNoTypes" -> TreeNoTypes
      [] name = "TreeNoDeviceType" -> TreeNoDeviceType
      [] name = "TreeDeviceTypeNotDict" -> TreeDeviceTypeNotDict

\* the second coordinator sees fewer trees
TreesOf(c) ==
    IF c = "c1" THEN Trees
    ELSE {"NoData", "TreeBothOdd", "TreeHeatTie", "TreeNoDeviceType"}

\* hasattr(coordinator, '_password') is false, or the attribute's value
NoAttr == "<no attribute>"
Passwords == {NoAttr, "", "secret"}

\* values of CHLORINATOR_ID and HEATPUMP_ID (const.py): an id or "-1"
DefaultIds == {NotFound, "0"}

(***************************************************************************)
(* The descriptions.  Each carries one data_path list, a module-level      *)
(* object: data_path[key] is that list, and an entity built from the       *)
(* description holds a reference to it, not a copy.                        *)
(***************************************************************************)
PERCENTAGE == "%"
CELSIUS == "C"
NoUnit == "none"

NUMBER_DESCRIPTIONS_CHLOR ==
    << [key |-> "chlor_output_control", unit |-> PERCENTAGE, leaf |-> "chlorOutput"] >>

NUMBER_DESCRIPTIONS_HEATPUMP ==
    << [key |-> "temperature_output_control", unit |-> CELSIUS, leaf |-> "setpoint"],
       [key |-> "heat_mode", unit |-> NoUnit, leaf |-> "mode"] >>

Range(seq) == {seq[i] : i \in 1..Len(seq)}

Descriptions == Range(NUMBER_DESCRIPTIONS_CHLOR) \cup Range(NUMBER_DESCRIPTIONS_HEATPUMP)

Keys == {d.key : d \in Descriptions}

DescOf(key) == CHOOSE d \in Descriptions : d.key = key

\* the lists as written in the module
InitialPath(d, chlor, heat) ==
    <<"devices",
      IF d \in Range(NUMBER_DESCRIPTIONS_CHLOR) THEN chlor ELSE heat,
      "config", d.leaf>>

(***************************************************************************)
(* async_setup_entry                                                       *)
(***************************************************************************)
\* the three early returns
SetupRefused(d) ==
    \/ Falsy(d)
    \/ ~IsDict(Get(d, "devices"))
    \/ ~IsDict(Get(Get(d, "devices"), "0"))

\* FirstOfType taking temp[-1]
LastOfType(deviceTypes, type) ==
    LET temp == SelectSeq(deviceTypes.keys, LAMBDA key : deviceTypes.m[key] = Str(type))
    IN  IF temp # <<>> THEN temp[Len(temp)] ELSE NotFound

\* [key for key, value in deviceTypes.items() if value == type], then
\* temp[0] if temp else "-1"
FirstOfType(deviceTypes, type) ==
    LET temp == SelectSeq(deviceTypes.keys, LAMBDA key : deviceTypes.m[key] = Str(type))
    IN  IF temp # <<>> THEN temp[1] ELSE NotFound

\* the id a setup uses for a device type: discovered when the tree has a
\* deviceType dict, the constant from const.py otherwise
DiscoverId(d, type, default) ==
    IF ~Falsy(d) /\ IsDict(Get(d, "deviceType"))
    THEN FirstOfType(Get(d, "deviceType"), type)
    ELSE default

\* an entity; its _data_path is the list data_path[key] itself.  discovered
\* records the id its own setup wrote there (history, not program state).
NumberEntity(c, d, id) ==
    [coordinator |-> c, key |-> d.key, unit |-> d.unit, discovered |-> id]

\* Construct without the `if id != "-1"` test
ConstructUnguarded(c, descriptions, id) ==
    {NumberEntity(c, d, id) : d \in Range(descriptions)}

\* one `if id != "-1": for description ...` block: the entities it builds
Construct(c, descriptions, id) ==
    IF id # NotFound
    THEN {NumberEntity(c, d, id) : d \in Range(descriptions)}
    ELSE {}

\* data_path[1] = id, for each description of a block that runs
Repoint(paths, descriptions, id) ==
    [k \in DOMAIN paths |->
        IF id # NotFound /\ k \in {d.key : d \in Range(descriptions)}
        THEN [paths[k] EXCEPT ![2] = id]
        ELSE paths[k]]

NoRead == [coordinator |-> "", key |-> "", unit |-> "", kind |-> "none", num |-> 0, den |-> 1]

Setup(c) ==
    /\ ~setup_done[c]
    /\ setup_done' = [setup_done EXCEPT ![c] = TRUE]
    /\ IF SetupRefused(TreeValue(data[c]))
       THEN UNCHANGED <<data_path, entities>>
       ELSE LET chlor_id == DiscoverId(TreeValue(data[c]), "chlorSync", CHLORINATOR_ID)
                heatpump_id == DiscoverId(TreeValue(data[c]), "heatPump", HEATPUMP_ID)
                number_entities ==
                    Construct(c, NUMBER_DESCRIPTIONS_CHLOR, chlor_id)
                    \cup Construct(c, NUMBER_DESCRIPTIONS_HEATPUMP, heatpump_id)
            IN  /\ data_path' =
                     Repoint(Repoint(data_path, NUMBER_DESCRIPTIONS_CHLOR, chlor_id),
                             NUMBER_DESCRIPTIONS_HEATPUMP, heatpump_id)
                /\ entities' = entities \cup number_entities
    /\ last_read' = NoRead
    /\ UNCHANGED <<CHLORINATOR_ID, HEATPUMP_ID, data, password, call>>

\* the coordinator replaces its tree wholesale
Refresh(c) ==
    /\ \E t \in TreesOf(c) \ {data[c]} : data' = [data EXCEPT ![c] = t]
    /\ last_read' = NoRead
    /\ UNCHANGED <<CHLORINATOR_ID, HEATPUMP_ID, password, data_path, entities,
                   setup_done, call>>

(***************************************************************************)
(* PoolSyncChlorOutputNumberEntity.native_value                            *)
(***************************************************************************)
\* float(value): the number in tenths, or the exception raised
Float(value) ==
    CASE value.kind \in {"num", "numstr", "bool"} -> [ok |-> TRUE, v |-> value.v, exc |-> ""]
      [] value.kind = "str" -> [ok |-> FALSE, v |-> 0, exc |-> "ValueError"]
      [] value.kind = "bigint" -> [ok |-> FALSE, v |-> 0, exc |-> "OverflowError"]
      [] OTHER -> [ok |-> FALSE, v |-> 0, exc |-> "TypeError"]

\* ToCelsius with the offset taken after the scaling: num_value * 5 / 9 - 32
ToCelsiusOffsetLast(v) == [num |-> v * 5 - 320 * 9, den |-> 90]

\* (num_value - 32) * 5 / 9 of v tenths, as a fraction
ToCelsius(v) == [num |-> (v - 320) * 5, den |-> 90]

\* what native_value returns (kind "float" or "None") or raises (kind "raise")
native_value(e) ==
    LET value == _get_value_from_path(TreeValue(data[e.coordinator]), data_path[e.key])
        f == Float(value)
        q == IF e.unit = CELSIUS THEN ToCelsius(f.v) ELSE [num |-> f.v, den |-> 10]
    IN  IF value = Absent THEN [kind |-> "None", num |-> 0, den |-> 1]
        ELSE IF f.ok THEN [kind |-> "float", num |-> q.num, den |-> q.den]
        ELSE IF f.exc \in {"ValueError", "TypeError"}
             THEN [kind |-> "None", num |-> 0, den |-> 1]
        ELSE [kind |-> "raise", num |-> 0, den |-> 1]

ReadValue(e) ==
    /\ last_read' = [coordinator |-> e.coordinator, key |-> e.key, unit |-> e.unit]
                    @@ native_value(e)
    /\ UNCHANGED <<CHLORINATOR_ID, HEATPUMP_ID, data, password, data_path, entities,
                   setup_done, call>>

(***************************************************************************)
(* PoolSyncChlorOutputNumberEntity.async_set_native_value                  *)
(***************************************************************************)
\* a float handed to the entity: n tenths, NaN or infinity
Finite(n) == [kind |-> "fin", n |-> n]
NaN == [kind |-> "nan", n |-> 0]
Infinity == [kind |-> "inf", n |-> 0]

\* -20.5, -17.8, -1.5, 0, 0.5, 20.0, 20.5, 23.9, 40.0
WriteTenths == {-205, -178, -15, 0, 5, 200, 205, 239, 400}

WriteValues == {Finite(n) : n \in WriteTenths} \cup {NaN, Infinity}

\* (new_value * 9 / 5) + 32 for a Celsius entity, new_value otherwise, as a
\* fraction of n tenths
Converted(unit, n) ==
    IF unit = CELSIUS THEN [num |-> 9 * n + 1600, den |-> 50]
    ELSE [num |-> n, den |-> 10]

\* int replaced by round(): to the nearest integer
intRounding(q) == (2 * q.num + q.den) \div (2 * q.den)

\* int(x) of a finite float: the fraction cut toward zero
int(q) ==
    IF q.num >= 0 THEN q.num \div q.den ELSE -((-q.num) \div q.den)

\* PasswordMissing without the emptiness test
PasswordMissingAttrOnly(c) == password[c] = NoAttr

\* not hasattr(self.coordinator, '_password') or not self.coordinator._password
PasswordMissing(c) == password[c] = NoAttr \/ password[c] = ""

NoError == [type |-> "", text |-> "", cause |-> ""]

\* what int(new_value) raises for a float that is not finite (the Celsius
\* conversion leaves NaN and infinity as they are)
IntError(value) ==
    IF value.kind = "nan"
    THEN [type |-> "ValueError", text |-> "cannot convert float NaN to integer",
          cause |-> ""]
    ELSE [type |-> "OverflowError", text |-> "cannot convert float infinity to integer",
          cause |-> ""]

\* what the api client or the coordinator can raise
Failures ==
    {[type |-> "HomeAssistantError", text |-> "rejected by device", cause |-> ""],
     [type |-> "ConfigEntryAuthFailed", text |-> "bad password", cause |-> ""],
     [type |-> "TimeoutError", text |-> "no answer", cause |-> ""]}

\* isinstance(e, HomeAssistantError)
IsHomeAssistantError(e) == e.type \in {"HomeAssistantError", "ConfigEntryAuthFailed"}

\* Reraised with a bare `raise` in both clauses
ReraisedUnwrapped(e) == e

\* the two except clauses: what leaves the method when e is raised in the try
Reraised(e) ==
    IF IsHomeAssistantError(e) THEN e
    ELSE [type |-> "HomeAssistantError", text |-> "Failed to set value: {e}",
          cause |-> e.text]

NoArgs == [deviceId |-> "", keyId |-> "", value |-> 0, password |-> ""]

Idle ==
    [pc |-> "idle", coordinator |-> "", key |-> "", unit |-> "", value |-> NaN,
     discovered |-> "", patch_calls |-> 0, patch_args |-> NoArgs,
     patch_result |-> "none", patch_error |-> NoError,
     refresh_requests |-> 0, error |-> NoError]

\* lines 208-234: convert, read the path, check the password, call the client
SetNativeValue(e, value) ==
    /\ call.pc = "idle"
    /\ LET started == [Idle EXCEPT !.coordinator = e.coordinator, !.key = e.key,
                                   !.unit = e.unit, !.value = value,
                                   !.discovered = e.discovered]
           datapath == data_path[e.key]
       IN  IF value.kind # "fin"
           THEN \* int(new_value) raises
                call' = [started EXCEPT !.pc = "raised", !.error = IntError(value)]
           ELSE IF PasswordMissing(e.coordinator)
           THEN call' = [started EXCEPT !.pc = "raised",
                            !.error = [type |-> "HomeAssistantError",
                                       text |-> "API password not available to set value.",
                                       cause |-> ""]]
           ELSE call' = [started EXCEPT !.pc = "patch", !.patch_calls = 1,
                            !.patch_args = [deviceId |-> datapath[2],
                                            keyId |-> datapath[4],
                                            value |-> int(Converted(e.unit, value.n)),
                                            password |-> password[e.coordinator]]]
    /\ UNCHANGED <<CHLORINATOR_ID, HEATPUMP_ID, data, password, data_path, entities,
                   setup_done, last_read>>

\* _request_patch returns: the refresh is requested
PatchReturns ==
    /\ call.pc = "patch"
    /\ call' = [call EXCEPT !.pc = "refresh", !.patch_result = "ok",
                            !.refresh_requests = @ + 1]
    /\ UNCHANGED <<CHLORINATOR_ID, HEATPUMP_ID, data, password, data_path, entities,
                   setup_done, last_read>>

\* PatchRaises with the refresh in a finally block
PatchRaisesThenRefreshes(e) ==
    /\ call.pc = "patch"
    /\ call' = [call EXCEPT !.pc = "raised", !.patch_result = "failed",
                            !.patch_error = e, !.error = Reraised(e),
                            !.refresh_requests = @ + 1]
    /\ UNCHANGED <<CHLORINATOR_ID, HEATPUMP_ID, data, password, data_path, entities,
                   setup_done, last_read>>

\* _request_patch raises
PatchRaises(e) ==
    /\ call.pc = "patch"
    /\ call' = [call EXCEPT !.pc = "raised", !.patch_result = "failed",
                            !.patch_error = e, !.error = Reraised(e)]
    /\ UNCHANGED <<CHLORINATOR_ID, HEATPUMP_ID, data, password, data_path, entities,
                   setup_done, last_read>>

\* async_request_refresh returns: the method returns normally
RefreshRequested ==
    /\ call.pc = "refresh"
    /\ call' = [call EXCEPT !.pc = "returned"]
    /\ UNCHANGED <<CHLORINATOR_ID, HEATPUMP_ID, data, password, data_path, entities,
                   setup_done, last_read>>

\* async_request_refresh raises
RefreshRaises(e) ==
    /\ call.pc = "refresh"
    /\ call' = [call EXCEPT !.pc = "raised", !.error = Reraised(e)]
    /\ UNCHANGED <<CHLORINATOR_ID, HEATPUMP_ID, data, password, data_path, entities,
                   setup_done, last_read>>

\* the caller has the result; the next write can start
CallOver ==
    /\ call.pc \in {"returned", "raised"}
    /\ call' = Idle
    /\ UNCHANGED <<CHLORINATOR_ID, HEATPUMP_ID, data, password, data_path, entities,
                   setup_done, last_read>>

(***************************************************************************)
(* The system.  A read looks at the tree and the path lists and never at a *)
(* write call; a write call looks at the path lists and the password and   *)
(* never at the tree.  Spec is setup, polling and reading; WriteSpec is    *)
(* setup and writing.                                                      *)
(***************************************************************************)
Init ==
    /\ CHLORINATOR_ID \in DefaultIds
    /\ HEATPUMP_ID \in DefaultIds
    /\ data \in {f \in [Coords -> Trees] : \A c \in Coords : f[c] \in TreesOf(c)}
    /\ password = [c \in Coords |-> "secret"]
    /\ data_path = [k \in Keys |-> InitialPath(DescOf(k), CHLORINATOR_ID, HEATPUMP_ID)]
    /\ entities = {}
    /\ setup_done = [c \in Coords |-> FALSE]
    /\ call = Idle
    /\ last_read = NoRead

Next ==
    \/ \E c \in Coords : Setup(c)
    \/ \E c \in Coords : Refresh(c)
    \/ \E e \in entities : ReadValue(e)

Spec == Init /\ [][Next]_vars

\* the trees the coordinators hold while values are written
WriteTreesOf(c) ==
    IF c = "c1" THEN {"TreeBoth", "TreeNoHeatPump"}
    ELSE {"TreeBothOdd", "TreeNoDeviceType"}

WriteInit ==
    /\ CHLORINATOR_ID \in DefaultIds
    /\ HEATPUMP_ID \in DefaultIds
    /\ data \in {f \in [Coords -> Trees] : \A c \in Coords : f[c] \in WriteTreesOf(c)}
    /\ password \in [Coords -> Passwords]
    /\ data_path = [k \in Keys |-> InitialPath(DescOf(k), CHLORINATOR_ID, HEATPUMP_ID)]
    /\ entities = {}
    /\ setup_done = [c \in Coords |-> FALSE]
    /\ call = Idle
    /\ last_read = NoRead

WriteNext ==
    \/ \E c \in Coords : Setup(c)
    \/ \E e \in entities, value \in WriteValues : SetNativeValue(e, value)
    \/ PatchReturns
    \/ \E e \in Failures : PatchRaises(e)
    \/ RefreshRequested
    \/ \E e \in Failures : RefreshRaises(e)
    \/ CallOver

WriteSpec == WriteInit /\ [][WriteNext]_vars

(***************************************************************************)
(* Properties of async_set_native_value, checked under WriteSpec           *)
(***************************************************************************)
InCall == call.pc # "idle"

NoCredential(c) == password[c] = NoAttr \/ password[c] = ""

CredentialUnavailable ==
    [type |-> "HomeAssistantError", text |-> "API password not available to set value.",
     cause |-> ""]

IsTruncation(k, num, den) ==
    /\ k \in Int
    /\ num >= 0 => (k * den <= num /\ num < (k + 1) * den)
    /\ num < 0 => ((k - 1) * den < num /\ num <= k * den)

\* C2: the value passed to the patch is an integer, the converted value cut
\* toward zero: trunc(v * 9/5 + 32) for a Celsius control and trunc(v) for
\* any other (v is call.value.n / 10); 23.9 C sends 75 and 20.0 C sends 68.
C2_SentValueIsTruncated ==
    call.patch_calls > 0 =>
        /\ call.unit = CELSIUS =>
              IsTruncation(call.patch_args.value, 9 * call.value.n + 1600, 50)
        /\ call.unit # CELSIUS =>
              IsTruncation(call.patch_args.value, call.value.n, 10)
        /\ (call.unit = CELSIUS /\ call.value.n = 239) => call.patch_args.value = 75
        /\ (call.unit = CELSIUS /\ call.value.n = 200) => call.patch_args.value = 68

C2_Witness ==
    /\ call.pc = "patch"
    /\ call.unit = CELSIUS
    /\ call.value = Finite(239)
    /\ call.patch_args.value = 75

PlatformErrors == {"HomeAssistantError", "ConfigEntryAuthFailed"}

\* C3: when the patch fails the write ends in an error, never normally: a
\* platform error (HomeAssistantError or a subclass) is the very error the
\* patch raised, any other failure is a HomeAssistantError carrying the cause.
C3_PatchFailureSurfaces ==
    call.patch_result = "failed" =>
        /\ call.pc = "raised"
        /\ call.patch_error.type \in PlatformErrors => call.error = call.patch_error
        /\ call.patch_error.type \notin PlatformErrors =>
              /\ call.error.type = "HomeAssistantError"
              /\ call.error.cause = call.patch_error.text
              /\ call.error.text = "Failed to set value: {e}"

C3_Witness ==
    /\ call.pc = "raised"
    /\ call.patch_result = "failed"
    /\ call.patch_error.type = "TimeoutError"
    /\ call.error.type = "HomeAssistantError"
    /\ call.error.cause = "no answer"

\* C4: in one write the patch is called at most once, the refresh at most
\* once and only after the patch returned, never after the patch failed, and
\* the write returns normally only after the refresh was requested.
C4_WriteOrdering ==
    /\ call.patch_calls <= 1
    /\ call.refresh_requests <= 1
    /\ call.refresh_requests > 0 => (call.patch_calls = 1 /\ call.patch_result = "ok")
    /\ call.patch_result = "failed" => call.refresh_requests = 0
    /\ call.pc = "returned" => (call.refresh_requests = 1 /\ call.patch_result = "ok")

C4_Witness ==
    /\ call.pc = "returned"
    /\ call.patch_calls = 1
    /\ call.patch_result = "ok"
    /\ call.refresh_requests = 1

\* C10 as claimed: every entity's path keeps, at index 1, the device id its
\* own setup discovered, and the patch of a write carries that id.
C10_PathKeepsOwnDeviceId ==
    /\ \A e \in entities : data_path[e.key][2] = e.discovered
    /\ call.patch_calls > 0 => call.patch_args.deviceId = call.discovered

(***************************************************************************)
(* Properties of native_value and async_setup_entry, checked under Spec    *)
(***************************************************************************)
HasRead == last_read.kind # "none"

\* what the resolver yields for the entity just read (a read is forgotten as
\* soon as the tree or the paths change)
Resolved ==
    _get_value_from_path(TreeValue(data[last_read.coordinator]), data_path[last_read.key])

\* C5 as claimed: a read never raises; it returns None when the resolver
\* yields Absent and when the resolved value cannot be made a number.
C5_ReadNeverRaises ==
    HasRead =>
        /\ last_read.kind # "raise"
        /\ Resolved = Absent => last_read.kind = "None"
        /\ Resolved.kind \in {"str", "list", "map", "bigint"} => last_read.kind = "None"

\* C6: when the resolver yields a number x that float() converts, a read
\* returns (x - 32) * 5/9 for a Celsius control and x for any other control
\* (x is Resolved.v / 10, the result last_read.num / last_read.den);
\* chlorOutput 42 reads as 42 and setpoint 98.6 as 37.
C6_ReadConversion ==
    (HasRead /\ Resolved.kind \in {"num", "numstr", "bool"}) =>
        /\ last_read.kind = "float"
        /\ last_read.den > 0
        /\ last_read.unit = CELSIUS =>
              9 * 10 * last_read.num = 5 * (Resolved.v - 320) * last_read.den
        /\ last_read.unit # CELSIUS =>
              10 * last_read.num = Resolved.v * last_read.den
        /\ (last_read.unit = PERCENTAGE /\ Resolved = Num(420)) =>
              last_read.num = 42 * last_read.den
        /\ (last_read.unit = CELSIUS /\ Resolved = Num(986)) =>
              last_read.num = 37 * last_read.den

C6_Witness ==
    /\ last_read.kind = "float"
    /\ last_read.unit = CELSIUS
    /\ Resolved = Num(986)
    /\ last_read.num = 37 * last_read.den

\* the step in which async_setup_entry runs for coordinator c
SetupStep(c) == ~setup_done[c] /\ setup_done'[c]

DeviceTypes(c) == Get(TreeValue(data[c]), "deviceType")

HasDeviceTypes(c) == IsDict(TreeValue(data[c])) /\ IsDict(DeviceTypes(c))

IdsOfType(c, type) ==
    IF HasDeviceTypes(c)
    THEN {k \in DOMAIN DeviceTypes(c).m : DeviceTypes(c).m[k] = Str(type)}
    ELSE {}

ChlorKeys == {"chlor_output_control"}
HeatKeys == {"temperature_output_control", "heat_mode"}

TypeOfKey(key) == IF key \in ChlorKeys THEN "chlorSync" ELSE "heatPump"

LeafOfKey(key) ==
    CASE key = "chlor_output_control" -> "chlorOutput"
      [] key = "temperature_output_control" -> "setpoint"
      [] key = "heat_mode" -> "mode"

\* the id of the first item of a deviceType dict, in iteration order, whose
\* value is type
FirstInOrder(dt, type) ==
    CHOOSE k \in DOMAIN dt.m :
        \E i \in 1..Len(dt.keys) :
            /\ dt.keys[i] = k
            /\ dt.m[k] = Str(type)
            /\ \A j \in 1..(i - 1) : dt.m[dt.keys[j]] # Str(type)

\* C7 as claimed: whenever the tree's deviceType has a chlorSync id and a
\* heatPump id, setup registers the three controls, each with the path
\* ["devices", <an id of its device type>, "config", <its key>].
C7_BothTypesAllRegistered ==
    [][\A c \in Coords :
          (SetupStep(c) /\ IdsOfType(c, "chlorSync") # {} /\ IdsOfType(c, "heatPump") # {})
          => \A key \in Keys :
                /\ \E e \in entities' : e.coordinator = c /\ e.key = key
                /\ \E id \in IdsOfType(c, TypeOfKey(key)) :
                      data_path'[key] = <<"devices", id, "config", LeafOfKey(key)>>
      ]_vars

C9_FirstIdWins ==
    [][\A c \in Coords :
          (SetupStep(c) /\ ~SetupRefused(TreeValue(data[c])) /\ HasDeviceTypes(c))
          => \A key \in Keys :
                IdsOfType(c, TypeOfKey(key)) # {} =>
                    /\ \E e \in entities' : e.coordinator = c /\ e.key = key
                    /\ data_path'[key][2] = FirstInOrder(DeviceTypes(c), TypeOfKey(key))
      ]_vars

C9_Witness ==
    /\ setup_done["c1"]
    /\ ~setup_done["c2"]
    /\ data["c1"] = "TreeHeatTie"
    /\ Cardinality(IdsOfType("c1", "heatPump")) = 2
    /\ \E e \in entities :
          /\ e.coordinator = "c1"
          /\ e.key = "temperature_output_control"
          /\ e.discovered = "7"
          /\ data_path[e.key][2] = "7"

====
